---- MODULE Spec2Model ----
(***************************************************************************)
(* The ClaimTrie height orchestrator (claimtrie/claimtrie.go) together     *)
(* with the collaborators it drives: block-hash repo, temporal repo, node  *)
(* manager (change log and node state machine) and Merkle trie.            *)
(* Names are small integers standing for byte strings that are fixed       *)
(* points of name normalization; hashes are modelled as the canonical      *)
(* encoding they are taken over (a collision-free hash).                   *)
(***************************************************************************)
EXTENDS Integers, Sequences, FiniteSets, TLC

\* ------------------------------------------------------------- bounds
MaxHeight == 4
MaxChanges == 2
MaxResets == 1
MaxFaults == 1
MaxRestarts == 1
\* changes submitted in the runs with storage failures or restarts
MaxChangesShort == 1
\* heights of the runs that go on past the hash fork
MaxHeightTall == 6
\* Close calls in the runs that open and close instances
MaxCloses == 2

\* ------------------------------------------------- network parameters
AllClaimsInMerkleForkHeight == 4
OriginalClaimExpiration == 2
ExtendedClaimExpiration == 3
ExtendedClaimExpirationForkHeight == 2
ActivationDelayDivisor == 32
MaxActivationDelay == 4032

\* ------------------------------------------------------------- inputs
Names == {1, 2}
ClaimOutPoints == {1, 2}
Amounts == {1, 2}
\* updates and supports: one name, one outpoint each, acting on claim 1
UpdateNames == {1}
UpdateOutPoints == {3}
UpdateAmounts == {2}
SupportNames == {1}
SupportOutPoints == {4}
SupportAmounts == {1}
SupportedClaims == {1}

NoHash == <<"none">>
NoClaim == 0

\* ------------------------------------------------------ small helpers
Min(a, b) == IF a < b THEN a ELSE b

SetMin(S) == CHOOSE x \in S : \A y \in S : x <= y

RECURSIVE SumAmt(_)
SumAmt(S) ==
  IF S = {} THEN 0
  ELSE LET s == CHOOSE x \in S : TRUE IN s.amt + SumAmt(S \ {s})

RECURSIVE SetToSortedSeq(_)
SetToSortedSeq(S) ==
  IF S = {} THEN <<>>
  ELSE LET m == SetMin(S) IN <<m>> \o SetToSortedSeq(S \ {m})

Range(s) == {s[i] : i \in 1..Len(s)}

\* sort.Slice with bytes.Compare: ascending order, duplicates kept
RECURSIVE InsertSorted(_, _)
InsertSorted(s, x) ==
  IF s = <<>> THEN <<x>>
  ELSE IF x < Head(s) THEN <<x>> \o s
  ELSE <<Head(s)>> \o InsertSorted(Tail(s), x)

RECURSIVE SortNames(_)
SortNames(s) ==
  IF s = <<>> THEN <<>> ELSE InsertSorted(SortNames(Tail(s)), Head(s))

\* names = append(names[:i], names[i+1:]...)
DeleteAt(s, i) == SubSeq(s, 1, i - 1) \o SubSeq(s, i + 1, Len(s))

\* the loop of removeDuplicates; i is the 1-based index of names[i]
RECURSIVE DedupLoop(_, _)
DedupLoop(s, i) ==
  IF i < 1 THEN s
  ELSE IF s[i] = s[i + 1] THEN DedupLoop(DeleteAt(s, i), i - 1)
  ELSE DedupLoop(s, i - 1)

removeDuplicates(names) ==
  LET sorted == SortNames(names) IN DedupLoop(sorted, Len(sorted) - 1)

\* ------------------------------------------------- node state machine
EmptyNode == [claims |-> {}, supports |-> {}, best |-> NoClaim, takeover |-> 0]

ExpirationAt(accepted) ==
  IF accepted < ExtendedClaimExpirationForkHeight
  THEN OriginalClaimExpiration ELSE ExtendedClaimExpiration

ExpiresAt(e) == e.accepted + ExpirationAt(e.accepted)

ActivationDelay(node, h) ==
  IF node.best = NoClaim THEN 0
  ELSE Min(MaxActivationDelay, (h - node.takeover) \div ActivationDelayDivisor)

ApplyChange(node, c) ==
  LET entry == [id |-> c.id, op |-> c.op, amt |-> c.amt, accepted |-> c.height,
                active |-> c.height + ActivationDelay(node, c.height)]
  IN CASE c.type = "AddClaim" ->
            [node EXCEPT !.claims = {x \in @ : x.op # c.op} \cup {entry}]
       [] c.type = "SpendClaim" ->
            [node EXCEPT !.claims = {x \in @ : x.op # c.op}]
       [] c.type = "UpdateClaim" ->
            LET old == {x \in node.claims : x.id = c.id} IN
            IF old = {} THEN node
            ELSE LET acc == SetMin({x.accepted : x \in old}) IN
                 [node EXCEPT !.claims =
                    {x \in @ : x.id # c.id /\ x.op # c.op}
                      \cup {[entry EXCEPT !.accepted = acc]}]
       [] c.type = "AddSupport" ->
            [node EXCEPT !.supports = {x \in @ : x.op # c.op} \cup {entry}]
       [] c.type = "SpendSupport" ->
            [node EXCEPT !.supports = {x \in @ : x.op # c.op}]

RECURSIVE ApplyChanges(_, _)
ApplyChanges(node, cs) ==
  IF cs = <<>> THEN node ELSE ApplyChanges(ApplyChange(node, Head(cs)), Tail(cs))

IsActive(e, h) == e.active <= h /\ h < ExpiresAt(e)

ActiveClaims(node, h) == {c \in node.claims : IsActive(c, h)}

ActiveSupports(node, id, h) ==
  {s \in node.supports : s.id = id /\ IsActive(s, h)}

EffectiveAmount(node, c, h) == c.amt + SumAmt(ActiveSupports(node, c.id, h))

\* greater effective amount, then earlier accepted height, then smaller outpoint
Outbids(node, a, b, h) ==
  LET ea == EffectiveAmount(node, a, h)
      eb == EffectiveAmount(node, b, h)
  IN \/ ea > eb
     \/ ea = eb /\ a.accepted < b.accepted
     \/ ea = eb /\ a.accepted = b.accepted /\ a.op <= b.op

BestClaim(node, h) ==
  LET act == ActiveClaims(node, h) IN
  IF act = {} THEN NoClaim
  ELSE (CHOOSE a \in act : \A b \in act : Outbids(node, a, b, h)).id

\* one height of the replay: apply the changes of height h, drop what has
\* expired, re-evaluate the controller
StepNode(node, cs, h) ==
  LET n1 == ApplyChanges(node, cs)
      n2 == [n1 EXCEPT !.claims = {c \in @ : h < ExpiresAt(c)},
                       !.supports = {s \in @ : h < ExpiresAt(s)}]
      b == BestClaim(n2, h)
  IN IF b = n2.best THEN n2
     ELSE [n2 EXCEPT !.best = b, !.takeover = IF b = NoClaim THEN 0 ELSE h]

ChangesAt(log, name, h) ==
  SelectSeq(log, LAMBDA c : c.name = name /\ c.height = h)

RECURSIVE Replay(_, _, _, _, _)
Replay(log, name, node, h, H) ==
  IF h > H THEN node
  ELSE Replay(log, name, StepNode(node, ChangesAt(log, name, h), h), h + 1, H)

\* the node of `name` rebuilt from the change log truncated at height H
NodeAt(log, name, H) == Replay(log, name, EmptyNode, 1, H)

NextUpdateHeight(node, h) ==
  LET es == node.claims \cup node.supports
      ev == {e.active : e \in {x \in es : x.active > h}}
              \cup {ExpiresAt(e) : e \in {x \in es : ExpiresAt(x) > h}}
  IN IF ev = {} THEN 0 ELSE SetMin(ev)

\* ------------------------------------------------------- node hashes
PreForkHash(node) ==
  IF node.best = NoClaim THEN NoHash
  ELSE LET c == CHOOSE x \in node.claims : x.id = node.best
       IN <<"winner", c.op, node.takeover>>

AllClaimsHash(node, h) ==
  LET act == ActiveClaims(node, h) IN
  IF act = {} THEN NoHash
  ELSE <<"all", node.takeover,
         {<<c.op, {<<s.op, s.amt>> : s \in ActiveSupports(node, c.id, h)}>> : c \in act}>>

\* ------------------------------------------------------------- state
VARIABLES
  running,       \* a ClaimTrie instance exists (New has returned it)
  height,        \* ct.height
  nmHeight,      \* node manager: the height it has advanced to
  nmChanges,     \* node manager: buffered changes, not yet persisted
  nodeRepo,      \* change log on disk, in insertion order
  temporalRepo,  \* temporal repo on disk: set of <<name, height>>
  blockRepo,     \* block-hash repo on disk: set of <<height, root>>
  trie,          \* Merkle trie: [cache, dirty, root]
  lastOp,        \* the operation the last step performed
  lastErr,       \* whether it returned an error
  submitted,     \* number of changes submitted so far (bounds the run)
  resets,        \* number of ResetHeight calls so far (bounds the run)
  faults,        \* number of injected storage failures so far (bounds the run)
  restarts,      \* number of Close calls and crashes so far (bounds the run)
  rt,            \* round-trip scenario: its phase and what it recorded
  cleanups,      \* ct.cleanups: the registered cleanups, in registration order
  opened,        \* the repos that are open and whose cleanup was not invoked
  closeLog       \* the pairs <<cleanup, it failed>> the last New or Close invoked

vars == <<running, height, nmHeight, nmChanges, nodeRepo,
          temporalRepo, blockRepo, trie, lastOp, lastErr, submitted, resets,
          faults, restarts, rt, cleanups, opened, closeLog>>

\* the in-memory state of the ClaimTrie instance, and the disk
memory == <<running, height, nmHeight, nmChanges, trie>>
disk == <<nodeRepo, temporalRepo, blockRepo>>
counters == <<submitted, resets, faults, restarts>>
resources == <<cleanups, opened, closeLog>>

\* ------------------------------------------------------ block-hash repo
BlockHeights == {e[1] : e \in blockRepo}

BlockHas(repo, h) == \E e \in repo : e[1] = h

BlockGet(repo, h) == (CHOOSE e \in repo : e[1] = h)[2]

BlockSet(repo, h, root) == {e \in repo : e[1] # h} \cup {<<h, root>>}

\* the last persisted height: the greatest height with an entry, 0 if none
BlockLoad(repo) ==
  IF repo = {} THEN 0
  ELSE CHOOSE h \in {e[1] : e \in repo} : \A e \in repo : e[1] <= h

\* -------------------------------------------------------- temporal repo
NodesAt(repo, h) == SetToSortedSeq({e[1] : e \in {x \in repo : x[2] = h}})

SetNodesAt(repo, names, heights) ==
  repo \cup {<<names[i], heights[i]>> : i \in 1..Len(names)}

\* --------------------------------------------------------- node manager
KnownNames(log) == {log[i].name : i \in 1..Len(log)}

ChangeNames(cs) == [i \in 1..Len(cs) |-> cs[i].name]

\* names with a buffered change, and names whose node has an update due
TouchedNames(log, buffered, from, to) ==
  LET due == {n \in KnownNames(log) :
                LET nu == NextUpdateHeight(NodeAt(log, n, from), from)
                IN nu > 0 /\ nu <= to}
  IN removeDuplicates(ChangeNames(buffered) \o SetToSortedSeq(due))

NextUpdateHeightOfNode(log, name, h) ==
  <<name, NextUpdateHeight(NodeAt(log, name, h), h)>>

DropChanges(cs, names, h) ==
  SelectSeq(cs, LAMBDA c : ~(c.name \in names /\ c.height > h))

\* ---------------------------------------------------------- Merkle trie
Clean == 0
Rehash == 1
Reload == 2

EmptyLeaf == [node |-> EmptyNode, hash |-> NoHash]

EmptyTrie == [cache |-> [n \in Names |-> EmptyLeaf],
              dirty |-> [n \in Names |-> Clean],
              root |-> [n \in Names |-> NoHash]]

EmptyRoot == [n \in Names |-> NoHash]

TrieUpdate(t, names, mark) ==
  [t EXCEPT !.dirty =
     [n \in Names |-> IF n \in names /\ mark > t.dirty[n] THEN mark ELSE t.dirty[n]]]

LeafHash(node, allClaims, h) ==
  IF allClaims THEN AllClaimsHash(node, h) ELSE PreForkHash(node)

\* recompute the dirty leaves and the root above them
TrieMerkle(t, allClaims, log, h) ==
  IF \A n \in Names : t.dirty[n] = Clean THEN t
  ELSE LET cache == [n \in Names |->
                       IF t.dirty[n] = Clean THEN t.cache[n]
                       ELSE LET node == IF t.dirty[n] = Reload
                                        THEN NodeAt(log, n, h)
                                        ELSE t.cache[n].node
                            IN [node |-> node, hash |-> LeafHash(node, allClaims, h)]]
       IN [cache |-> cache,
           dirty |-> [n \in Names |-> Clean],
           root |-> [n \in Names |-> cache[n].hash]]

\* names = Names with clear = TRUE stands for the nil name list
TrieSetRoot(t, hash, names, clear) ==
  IF clear
  THEN [cache |-> [n \in Names |-> EmptyLeaf],
        dirty |-> [n \in Names |-> Reload],
        root |-> hash]
  ELSE [TrieUpdate(t, names, Reload) EXCEPT !.root = hash]

\* ------------------------------------------------- ClaimTrie: queries
Height == height

UsesAllClaims(h) == h >= AllClaimsInMerkleForkHeight

\* ct.MerkleHash() at ct.height = h: the trie after the lazy recomputation
MerkleHash(t, h, log, nmH) == TrieMerkle(t, UsesAllClaims(h), log, nmH)

\* the root a fresh computation over the change log truncated at h gives
RootAt(log, h) ==
  [n \in Names |-> LeafHash(NodeAt(log, n, h), UsesAllClaims(h), h)]

\* ------------------------------------------- ClaimTrie: change submission
Change(type, name, op, id, amt) ==
  [height |-> 0, name |-> name, type |-> type, op |-> op, id |-> id, amt |-> amt]

\* chg.Height = ct.Height() + 1
Stamp(chg) == [chg EXCEPT !.height = Height + 1]

\* forwardNodeChange, were a rejected submission to move the height
forwardNodeChange_MovesHeight(chg, fails, opName) ==
  /\ running
  /\ nmChanges' = IF fails THEN nmChanges ELSE Append(nmChanges, Stamp(chg))
  /\ height' = IF fails /\ height > 0 THEN height - 1 ELSE height
  /\ lastOp' = opName
  /\ lastErr' = fails
  /\ UNCHANGED <<resources, running, nmHeight, trie, disk>>

forwardNodeChange(chg, fails, opName) ==
  /\ running
  /\ nmChanges' = IF fails THEN nmChanges ELSE Append(nmChanges, Stamp(chg))
  /\ lastOp' = opName
  /\ lastErr' = fails
  /\ UNCHANGED <<resources, running, height, nmHeight, trie, disk>>

AddClaim(name, op, id, amt, fails) ==
  forwardNodeChange(Change("AddClaim", name, op, id, amt), fails, "AddClaim")

UpdateClaim(name, op, amt, id, fails) ==
  forwardNodeChange(Change("UpdateClaim", name, op, id, amt), fails, "UpdateClaim")

SpendClaim(name, op, id, fails) ==
  forwardNodeChange(Change("SpendClaim", name, op, id, 0), fails, "SpendClaim")

AddSupport(name, op, amt, id, fails) ==
  forwardNodeChange(Change("AddSupport", name, op, id, amt), fails, "AddSupport")

SpendSupport(name, op, id, fails) ==
  forwardNodeChange(Change("SpendSupport", name, op, id, 0), fails, "SpendSupport")

\* ------------------------------------------------ ClaimTrie: AppendBlock
\* the loop over names: the pairs <<newName, nextUpdate>> with nextUpdate > 0
\* ScheduleLoop, were it to keep the pairs with nextUpdate = 0 as well
RECURSIVE ScheduleLoop_KeepsZero(_, _, _)
ScheduleLoop_KeepsZero(names, log, h) ==
  IF names = <<>> THEN <<>>
  ELSE LET nu == NextUpdateHeightOfNode(log, Head(names), h)
           rest == ScheduleLoop_KeepsZero(Tail(names), log, h)
       IN IF nu[2] < 0 THEN rest ELSE <<nu>> \o rest

RECURSIVE ScheduleLoop(_, _, _)
ScheduleLoop(names, log, h) ==
  IF names = <<>> THEN <<>>
  ELSE LET nu == NextUpdateHeightOfNode(log, Head(names), h)
           rest == ScheduleLoop(Tail(names), log, h)
       IN IF nu[2] <= 0 THEN rest ELSE <<nu>> \o rest

\* updateTrieForHashForkIfNecessary, were the sweep to run one block early
updateTrieForHashForkIfNecessary_OneEarly(t, h, log) ==
  IF h # AllClaimsInMerkleForkHeight - 1 THEN [hit |-> FALSE, trie |-> t]
  ELSE [hit |-> TRUE, trie |-> TrieUpdate(t, KnownNames(log), Rehash)]

updateTrieForHashForkIfNecessary(t, h, log) ==
  IF h # AllClaimsInMerkleForkHeight THEN [hit |-> FALSE, trie |-> t]
  ELSE [hit |-> TRUE, trie |-> TrieUpdate(t, KnownNames(log), Rehash)]

AppendStops == {"increment", "nodesAt", "setNodesAt", "none"}

\* AppendBlock on the current state, in the order of its statements; each
\* stage hands what it computed to the next. `stop` names the repo operation
\* that fails and makes the call return its error ("none": no such failure);
\* blockSetFails: the block-hash write fails.

\* the values the call leaves behind, by how far it got
AppendBlockResult(stop, blockSetFails, h1, log1, touched, names1, names2, sched, trie1, hitFork, trie2) ==
  LET didInc == stop # "increment"
      didRead == stop \notin {"increment", "nodesAt"}
      didSet == stop = "none"
  IN [height |-> h1,
      nmHeight |-> IF didInc THEN h1 ELSE nmHeight,
      nmChanges |-> IF didInc THEN <<>> ELSE nmChanges,
      nodeRepo |-> IF didInc THEN log1 ELSE nodeRepo,
      temporalRepo |->
        IF didSet
        THEN SetNodesAt(temporalRepo,
               names1 \o [i \in 1..Len(sched) |-> sched[i][1]],
               [i \in 1..Len(names1) |-> h1] \o [i \in 1..Len(sched) |-> sched[i][2]])
        ELSE temporalRepo,
      blockRepo |-> IF didSet /\ ~blockSetFails
                    THEN BlockSet(blockRepo, h1, trie2.root) ELSE blockRepo,
      trie |-> IF didSet
               THEN IF hitFork
                    THEN TrieSetRoot(trie2, trie2.root, Range(names2), FALSE)
                    ELSE trie2
               ELSE IF didRead THEN trie1 ELSE trie,
      err |-> ~didSet]

\* hitFork := updateTrieForHashForkIfNecessary(); h := ct.MerkleHash()
AppendBlockHash(stop, blockSetFails, h1, log1, touched, names1, names2, sched, trie1) ==
  AppendBlockResult(stop, blockSetFails, h1, log1, touched, names1, names2, sched,
                    trie1,
                    updateTrieForHashForkIfNecessary(trie1, h1, log1).hit,
                    MerkleHash(updateTrieForHashForkIfNecessary(trie1, h1, log1).trie,
                               h1, log1, h1))

\* the loop over names: trie.Update(name, true) and the scheduled updates
AppendBlockLoop(stop, blockSetFails, h1, log1, touched, names1, names2) ==
  AppendBlockHash(stop, blockSetFails, h1, log1, touched, names1, names2,
                  ScheduleLoop(names2, log1, h1),
                  TrieUpdate(trie, Range(names2), Reload))

\* names = removeDuplicates(names); names = removeDuplicates(names + expirations)
AppendBlockNames(stop, blockSetFails, h1, log1, touched) ==
  AppendBlockLoop(stop, blockSetFails, h1, log1, touched,
                  removeDuplicates(touched),
                  removeDuplicates(removeDuplicates(touched)
                                     \o NodesAt(temporalRepo, h1)))

\* ct.height++; names := nodeManager.IncrementHeightTo(ct.height)
AppendBlockRun(stop, blockSetFails) ==
  AppendBlockNames(stop, blockSetFails, height + 1, nodeRepo \o nmChanges,
                   TouchedNames(nodeRepo, nmChanges, nmHeight, height + 1))

AppendBlockStep(stop, blockSetFails) ==
  /\ running
  /\ LET r == AppendBlockRun(stop, blockSetFails) IN
       /\ height' = r.height
       /\ nmHeight' = r.nmHeight
       /\ nmChanges' = r.nmChanges
       /\ nodeRepo' = r.nodeRepo
       /\ temporalRepo' = r.temporalRepo
       /\ blockRepo' = r.blockRepo
       /\ trie' = r.trie
       /\ lastErr' = r.err
  /\ lastOp' = "AppendBlock"
  /\ UNCHANGED <<running, resources>>

AppendBlock(stop, blockSetFails) ==
  /\ height < MaxHeight
  /\ AppendBlockStep(stop, blockSetFails)

\* ------------------------------------------------ ClaimTrie: ResetHeight
RECURSIVE CollectNames(_, _, _)
CollectNames(repo, h, to) ==
  IF h > to THEN <<>> ELSE NodesAt(repo, h) \o CollectNames(repo, h + 1, to)

ResetStops == {"nodesAt", "decrement", "blockGet", "none"}

\* the values the call leaves behind, by how far it got
ResetHeightResult(target, stop, names, log1, hasHash, hash, trie1, trie2) ==
  LET didDec == stop \notin {"nodesAt", "decrement"}
      didGet == didDec /\ stop # "blockGet" /\ hasHash
  IN [height |-> IF didDec THEN target ELSE height,
      nmHeight |-> IF didDec THEN target ELSE nmHeight,
      nmChanges |-> IF didDec THEN DropChanges(nmChanges, Range(names), target)
                    ELSE nmChanges,
      nodeRepo |-> IF didDec THEN log1 ELSE nodeRepo,
      trie |-> IF didGet THEN trie2 ELSE trie,
      err |-> IF didGet THEN trie2.root # hash ELSE TRUE]

\* ct.merkleTrie.SetRoot(hash, names); ct.MerkleHash()
ResetHeightRoot(target, stop, names, log1, hasHash, hash, trie1) ==
  ResetHeightResult(target, stop, names, log1, hasHash, hash, trie1,
                    MerkleHash(trie1, target, log1, target))

\* passedHashFork; ct.height = height; hash := ct.blockRepo.Get(height)
ResetHeightGet(target, stop, names, log1, passedHashFork, hasHash, hash) ==
  ResetHeightRoot(target, stop, names, log1, hasHash, hash,
                  TrieSetRoot(trie, hash, Range(names), passedHashFork))

\* the names of temporalRepo.NodesAt(h), h in (target, ct.height], then
\* nodeManager.DecrementHeightTo(names, height)
ResetHeightNames(target, stop, names) ==
  ResetHeightGet(target, stop, names,
                 DropChanges(nodeRepo, Range(names), target),
                 /\ height >= AllClaimsInMerkleForkHeight
                 /\ target < AllClaimsInMerkleForkHeight,
                 BlockHas(blockRepo, target),
                 IF BlockHas(blockRepo, target) THEN BlockGet(blockRepo, target)
                 ELSE EmptyRoot)

ResetHeightRun(target, stop) ==
  ResetHeightNames(target, stop, CollectNames(temporalRepo, target + 1, height))

ResetHeight(target, stop) ==
  /\ running
  /\ stop = "nodesAt" => target < height
  /\ LET r == ResetHeightRun(target, stop) IN
       /\ height' = r.height
       /\ nmHeight' = r.nmHeight
       /\ nmChanges' = r.nmChanges
       /\ nodeRepo' = r.nodeRepo
       /\ trie' = r.trie
       /\ lastErr' = r.err
  /\ lastOp' = "ResetHeight"
  /\ UNCHANGED <<resources, running, temporalRepo, blockRepo>>

\* ------------------------------------------------ ClaimTrie: queries
MerkleHashCall ==
  /\ running
  /\ trie' = MerkleHash(trie, height, nodeRepo, nmHeight)
  /\ lastOp' = "MerkleHash"
  /\ lastErr' = FALSE
  /\ UNCHANGED <<resources, running, height, nmHeight, nmChanges, disk>>

Node(name) ==
  /\ running
  /\ name \in Names
  /\ lastOp' = "Node"
  /\ lastErr' = FALSE
  /\ UNCHANGED <<memory, disk, resources>>

FlushToDisk ==
  /\ running
  /\ lastOp' = "FlushToDisk"
  /\ lastErr' = FALSE
  /\ UNCHANGED <<memory, disk, resources>>

\* ------------------------------------------- ClaimTrie: New and Close
\* the steps of New that open a resource or load the tip, in order
OpenSteps == <<"blockRepo", "temporalRepo", "nodeRepo", "baseManager", "trieRepo", "load">>

OpenStops == Range(OpenSteps)

StepOf(step) == IF step = "none" THEN Len(OpenSteps) + 1
                ELSE CHOOSE i \in 1..Len(OpenSteps) : OpenSteps[i] = step

\* the repos a cleanup closes: the node manager closes the node repo, the
\* persistent trie closes the trie repo
ClosedBy(cleanup) ==
  CASE cleanup = "blockRepo" -> {"blockRepo"}
    [] cleanup = "temporalRepo" -> {"temporalRepo"}
    [] cleanup = "nodeManager" -> {"nodeRepo"}
    [] cleanup = "persistentTrie" -> {"trieRepo"}

\* New up to blockRepo.Load(): what is open and what is registered when the
\* step failAt fails ("none": no step fails); ramTrie: cfg.RamTrie
NewOpen(failAt, ramTrie) ==
  [opened |-> {r \in {"blockRepo", "temporalRepo", "nodeRepo", "trieRepo"} :
                 StepOf(r) < StepOf(failAt) /\ (r = "trieRepo" => ~ramTrie)},
   cleanups |->
     SelectSeq(<<"blockRepo", "temporalRepo", "nodeManager", "persistentTrie">>,
               LAMBDA c :
                 CASE c = "blockRepo" -> StepOf("blockRepo") < StepOf(failAt)
                   [] c = "temporalRepo" -> StepOf("temporalRepo") < StepOf(failAt)
                   [] c = "nodeManager" -> StepOf("baseManager") < StepOf(failAt)
                   [] c = "persistentTrie" ->
                        ~ramTrie /\ StepOf("trieRepo") < StepOf(failAt))]

\* Close, were it to return at the first cleanup that reports an error
RECURSIVE CloseLoop_StopsOnError(_, _, _)
CloseLoop_StopsOnError(cs, i, errs) ==
  IF i = 0 THEN <<>>
  ELSE IF cs[i] \in errs THEN <<<<cs[i], TRUE>>>>
  ELSE <<<<cs[i], FALSE>>>> \o CloseLoop_StopsOnError(cs, i - 1, errs)

\* the loop of Close from index i down: the cleanups it invokes, in order,
\* each with whether it returned an error; errs: the cleanups that do
RECURSIVE CloseLoop(_, _, _)
CloseLoop(cs, i, errs) ==
  IF i = 0 THEN <<>>
  ELSE <<<<cs[i], cs[i] \in errs>>>> \o CloseLoop(cs, i - 1, errs)

Released(log) == UNION {ClosedBy(log[i][1]) : i \in 1..Len(log)}

NewStops == {"blockGet", "increment", "none"}

\* NewResult, were New to return the instance without comparing the roots
NewResult_NoRootCheck(stop, previousHeight, hash, trie2) ==
  IF previousHeight = 0
  THEN [running |-> TRUE, height |-> 0, nmHeight |-> 0,
        trie |-> EmptyTrie, err |-> FALSE]
  ELSE IF stop # "none"
  THEN [running |-> FALSE, height |-> 0, nmHeight |-> 0,
        trie |-> EmptyTrie, err |-> TRUE]
  ELSE [running |-> TRUE, height |-> previousHeight,
        nmHeight |-> previousHeight, trie |-> trie2, err |-> FALSE]

\* the instance New builds when it gets as far as the root check
NewResult(stop, previousHeight, hash, trie2) ==
  LET failed == stop # "none" \/ trie2.root # hash
  IN IF previousHeight = 0
     THEN [running |-> TRUE, height |-> 0, nmHeight |-> 0,
           trie |-> EmptyTrie, err |-> FALSE]
     ELSE IF failed
     THEN [running |-> FALSE, height |-> 0, nmHeight |-> 0,
           trie |-> EmptyTrie, err |-> TRUE]
     ELSE [running |-> TRUE, height |-> previousHeight,
           nmHeight |-> previousHeight, trie |-> trie2, err |-> FALSE]

\* hash := blockRepo.Get(previousHeight); nodeManager.IncrementHeightTo;
\* trie.SetRoot(hash, nil); ct.MerkleHash()
NewRestore(stop, previousHeight, hash) ==
  NewResult(stop, previousHeight, hash,
            MerkleHash(TrieSetRoot(EmptyTrie, hash, {}, TRUE), previousHeight,
                       nodeRepo, previousHeight))

\* previousHeight := blockRepo.Load()
NewRun(stop) ==
  NewRestore(stop, BlockLoad(blockRepo),
             IF blockRepo = {} THEN EmptyRoot
             ELSE BlockGet(blockRepo, BlockLoad(blockRepo)))

\* New when every resource opens and the tip loads; on an error after that
\* it calls ct.Close()
NewWith(stop, ramTrie) ==
  /\ ~running
  /\ stop # "none" => BlockLoad(blockRepo) > 0
  /\ LET r == NewRun(stop)
         o == NewOpen("none", ramTrie)
     IN /\ running' = r.running
        /\ height' = r.height
        /\ nmHeight' = r.nmHeight
        /\ trie' = r.trie
        /\ lastErr' = r.err
        /\ cleanups' = IF r.err THEN <<>> ELSE o.cleanups
        /\ closeLog' = IF r.err THEN CloseLoop(o.cleanups, Len(o.cleanups), {})
                       ELSE <<>>
        /\ opened' = IF r.err
                     THEN o.opened \ Released(CloseLoop(o.cleanups, Len(o.cleanups), {}))
                     ELSE o.opened
  /\ nmChanges' = <<>>
  /\ lastOp' = "New"
  /\ UNCHANGED disk

New(stop) == NewWith(stop, FALSE)

\* New when the step failAt fails: it returns the error at once
NewOpenFails(failAt, ramTrie) ==
  /\ ~running
  /\ failAt \in OpenStops
  /\ failAt = "trieRepo" => ~ramTrie
  /\ opened' = NewOpen(failAt, ramTrie).opened
  /\ cleanups' = <<>>
  /\ closeLog' = <<>>
  /\ lastOp' = "New"
  /\ lastErr' = TRUE
  /\ UNCHANGED <<memory, disk>>

\* the instance is gone: nothing of it is left in memory
Gone ==
  /\ running' = FALSE
  /\ height' = 0
  /\ nmHeight' = 0
  /\ nmChanges' = <<>>
  /\ trie' = EmptyTrie

CloseWith(errs) ==
  /\ running
  /\ Gone
  /\ closeLog' = CloseLoop(cleanups, Len(cleanups), errs)
  /\ opened' = opened \ Released(CloseLoop(cleanups, Len(cleanups), errs))
  /\ cleanups' = <<>>
  /\ lastOp' = "Close"
  /\ lastErr' = FALSE
  /\ UNCHANGED disk

Close == CloseWith({})

\* the process stops inside AppendBlock, right after the persisted write `after`
CrashPoints == {"increment", "setNodesAt", "blockSet"}

CrashDisk(after) ==
  CASE after = "increment" -> AppendBlockRun("nodesAt", FALSE)
    [] after = "setNodesAt" -> AppendBlockRun("none", TRUE)
    [] after = "blockSet" -> AppendBlockRun("none", FALSE)

CrashInAppendBlock(after) ==
  /\ running
  /\ height < MaxHeight
  /\ LET r == CrashDisk(after) IN
       /\ nodeRepo' = r.nodeRepo
       /\ temporalRepo' = r.temporalRepo
       /\ blockRepo' = r.blockRepo
  /\ Gone
  /\ cleanups' = <<>>
  /\ opened' = {}
  /\ closeLog' = <<>>
  /\ lastOp' = "Crash"
  /\ lastErr' = FALSE

\* ------------------------------------------------------ specifications
NoRoundTrip == [phase |-> 0, h |-> 0, root |-> EmptyRoot, changes |-> <<>>]

Init ==
  /\ running = TRUE
  /\ height = 0
  /\ nmHeight = 0
  /\ nmChanges = <<>>
  /\ nodeRepo = <<>>
  /\ temporalRepo = {}
  /\ blockRepo = {}
  /\ trie = EmptyTrie
  /\ lastOp = "New"
  /\ lastErr = FALSE
  /\ submitted = 0
  /\ resets = 0
  /\ faults = 0
  /\ restarts = 0
  /\ rt = NoRoundTrip
  /\ cleanups = NewOpen("none", FALSE).cleanups
  /\ opened = NewOpen("none", FALSE).opened
  /\ closeLog = <<>>

\* a change submission, with the inputs it is called with
Submit(fails, cap) ==
  /\ submitted < cap
  /\ submitted' = submitted + 1
  /\ \/ \E n \in Names, op \in ClaimOutPoints, a \in Amounts :
          AddClaim(n, op, op, a, fails)
     \/ \E n \in UpdateNames, op \in UpdateOutPoints, id \in SupportedClaims,
           a \in UpdateAmounts :
          UpdateClaim(n, op, a, id, fails)
     \/ \E n \in Names, op \in ClaimOutPoints : SpendClaim(n, op, op, fails)
     \/ \E n \in SupportNames, op \in SupportOutPoints, id \in SupportedClaims,
           a \in SupportAmounts :
          AddSupport(n, op, a, id, fails)
     \/ \E n \in SupportNames, op \in SupportOutPoints, id \in SupportedClaims :
          SpendSupport(n, op, id, fails)

SubmitOk == Submit(FALSE, MaxChanges) /\ UNCHANGED <<resets, faults, restarts, rt>>

SubmitShort == Submit(FALSE, MaxChangesShort) /\ UNCHANGED <<resets, faults, restarts, rt>>

AppendBlockOk == AppendBlock("none", FALSE) /\ UNCHANGED <<counters, rt>>

\* ResetHeight to a previous known height, when the call succeeds
ResetHeightOk ==
  /\ resets < MaxResets
  /\ resets' = resets + 1
  /\ \E target \in 0..MaxHeight :
       /\ target <= height
       /\ ~ResetHeightRun(target, "none").err
       /\ ResetHeight(target, "none")
  /\ UNCHANGED <<submitted, faults, restarts, rt>>

\* change submissions, successful AppendBlock and successful ResetHeight calls
Next == SubmitOk \/ AppendBlockOk \/ ResetHeightOk

Spec == Init /\ [][Next]_vars

\* ---- the same operations, with storage failures and the queries
SubmitFails ==
  /\ faults < MaxFaults
  /\ faults' = faults + 1
  /\ Submit(TRUE, MaxChangesShort)
  /\ UNCHANGED <<resets, restarts, rt>>

AppendBlockFails ==
  /\ faults < MaxFaults
  /\ faults' = faults + 1
  /\ \E stop \in AppendStops, blockSetFails \in BOOLEAN :
       /\ (stop = "none") = blockSetFails
       /\ AppendBlock(stop, blockSetFails)
  /\ UNCHANGED <<submitted, resets, restarts, rt>>

\* ResetHeight to a previous known height, whatever it returns
ResetHeightAny ==
  /\ resets < MaxResets
  /\ resets' = resets + 1
  /\ \E target \in 0..MaxHeight :
       /\ target <= height
       /\ ResetHeight(target, "none")
  /\ UNCHANGED <<submitted, faults, restarts, rt>>

ResetHeightFails ==
  /\ resets < MaxResets
  /\ resets' = resets + 1
  /\ faults < MaxFaults
  /\ faults' = faults + 1
  /\ \E target \in 0..MaxHeight, stop \in ResetStops \ {"none"} :
       /\ target <= height
       /\ ResetHeight(target, stop)
  /\ UNCHANGED <<submitted, restarts, rt>>

Query ==
  /\ MerkleHashCall \/ (\E n \in Names : Node(n)) \/ FlushToDisk
  /\ UNCHANGED <<counters, rt>>

NextFault ==
  \/ SubmitShort \/ SubmitFails
  \/ AppendBlockOk \/ AppendBlockFails
  \/ ResetHeightAny \/ ResetHeightFails
  \/ Query

SpecFault == Init /\ [][NextFault]_vars

\* ---- the successful operations, with Close, a crash inside AppendBlock, New
CloseOk ==
  /\ restarts < MaxRestarts
  /\ restarts' = restarts + 1
  /\ Close
  /\ UNCHANGED <<submitted, resets, faults, rt>>

Crash ==
  /\ restarts < MaxRestarts
  /\ restarts' = restarts + 1
  /\ \E after \in CrashPoints : CrashInAppendBlock(after)
  /\ UNCHANGED <<submitted, resets, faults, rt>>

NewOk == New("none") /\ UNCHANGED <<counters, rt>>

NewFails ==
  /\ faults < MaxFaults
  /\ faults' = faults + 1
  /\ \E stop \in NewStops \ {"none"} : New(stop)
  /\ UNCHANGED <<submitted, resets, restarts, rt>>

NextRestart ==
  \/ SubmitShort \/ AppendBlockOk \/ ResetHeightOk
  \/ CloseOk \/ Crash \/ NewOk \/ NewFails

SpecRestart == Init /\ [][NextRestart]_vars

\* ---- the round trip: AppendBlock, ResetHeight(h - 1), the same changes
\* ---- submitted again, AppendBlock
SubmitAddClaim ==
  /\ submitted < MaxChanges
  /\ submitted' = submitted + 1
  /\ \E n \in Names, op \in ClaimOutPoints, a \in Amounts :
       AddClaim(n, op, op, a, FALSE)
  /\ UNCHANGED <<resets, faults, restarts, rt>>

RoundTripAppend ==
  /\ rt.phase = 0
  /\ AppendBlock("none", FALSE)
  /\ rt' = [phase |-> 1, h |-> height + 1, root |-> trie'.root,
            changes |-> nmChanges]
  /\ UNCHANGED counters

RoundTripReset ==
  /\ rt.phase = 1
  /\ ResetHeight(rt.h - 1, "none")
  /\ rt' = [rt EXCEPT !.phase = 2]
  /\ UNCHANGED counters

RoundTripResubmit ==
  /\ rt.phase = 2
  /\ ~lastErr
  /\ nmChanges' = nmChanges \o [i \in 1..Len(rt.changes) |-> Stamp(rt.changes[i])]
  /\ lastOp' = "Resubmit"
  /\ lastErr' = FALSE
  /\ rt' = [rt EXCEPT !.phase = 3]
  /\ UNCHANGED <<resources, running, height, nmHeight, trie, disk, counters>>

RoundTripAppendAgain ==
  /\ rt.phase = 3
  /\ AppendBlock("none", FALSE)
  /\ rt' = [rt EXCEPT !.phase = 4]
  /\ UNCHANGED counters

Before == rt.phase = 0 /\ (SubmitAddClaim \/ AppendBlockOk \/ ResetHeightOk)

NextRoundTrip ==
  \/ Before
  \/ RoundTripAppend \/ RoundTripReset \/ RoundTripResubmit \/ RoundTripAppendAgain

SpecRoundTrip == Init /\ [][NextRoundTrip]_vars

\* ---- a single change, heights past the hash fork
AppendBlockTall ==
  /\ height < MaxHeightTall
  /\ AppendBlockStep("none", FALSE)
  /\ UNCHANGED <<counters, rt>>

ResetHeightTall ==
  /\ resets < MaxResets
  /\ resets' = resets + 1
  /\ \E target \in 1..MaxHeightTall :
       /\ target <= height
       /\ ResetHeight(target, "none")
  /\ UNCHANGED <<submitted, faults, restarts, rt>>

NextTall == SubmitShort \/ AppendBlockTall \/ ResetHeightTall \/ Query

SpecTall == Init /\ [][NextTall]_vars

\* ---- instances opened and closed: New with each of its failures, Close with
\* ---- cleanups that report errors
CloseAny ==
  /\ restarts < MaxCloses
  /\ restarts' = restarts + 1
  /\ \E errs \in SUBSET Range(cleanups) : CloseWith(errs)
  /\ UNCHANGED <<submitted, resets, faults, rt>>

NewAny ==
  /\ \E ramTrie \in BOOLEAN : NewWith("none", ramTrie)
  /\ UNCHANGED <<counters, rt>>

NewAnyFails ==
  /\ faults < MaxFaults
  /\ faults' = faults + 1
  /\ \/ \E stop \in NewStops \ {"none"}, ramTrie \in BOOLEAN : NewWith(stop, ramTrie)
     \/ \E failAt \in OpenStops, ramTrie \in BOOLEAN : NewOpenFails(failAt, ramTrie)
  /\ UNCHANGED <<submitted, resets, restarts, rt>>

NextLifecycle == SubmitShort \/ AppendBlockOk \/ CloseAny \/ NewAny \/ NewAnyFails

SpecLifecycle == Init /\ [][NextLifecycle]_vars

\* ---- ResetHeight with any target, below and above the current height
ResetHeightAnyTarget ==
  /\ resets < MaxResets
  /\ resets' = resets + 1
  /\ \E target \in 0..MaxHeight : ResetHeight(target, "none")
  /\ UNCHANGED <<submitted, faults, restarts, rt>>

NextAnyTarget == SubmitShort \/ AppendBlockOk \/ ResetHeightAnyTarget

SpecAnyTarget == Init /\ [][NextAnyTarget]_vars

\* ================================================================ claims

\* C1: for every height h with an entry in the block-hash repo and
\* h <= Height(), the root recomputed from the change log truncated at h equals
\* the stored root; right after a successful AppendBlock or ResetHeight,
\* MerkleHash() equals the block-hash repo entry at Height().
C1_StoredRootsMatchLog ==
  /\ \A e \in blockRepo : e[1] <= height => RootAt(nodeRepo, e[1]) = e[2]
  /\ lastOp \in {"AppendBlock", "ResetHeight"} =>
       /\ BlockHas(blockRepo, height)
       /\ trie.root = BlockGet(blockRepo, height)

\* C2: AppendBlock giving root R at height h, then ResetHeight(h - 1), then the
\* same changes submitted again and AppendBlock: both calls succeed, the root
\* at height h is R again and so is the block-hash repo entry for h.
C2_RoundTrip ==
  /\ rt.phase = 2 => ~lastErr /\ height = rt.h - 1
  /\ rt.phase = 4 =>
       /\ ~lastErr
       /\ height = rt.h
       /\ trie.root = rt.root
       /\ BlockHas(blockRepo, rt.h)
       /\ BlockGet(blockRepo, rt.h) = rt.root

\* C3: the root at a height is the one a fresh computation over the change log
\* truncated at that height gives, whatever ResetHeight calls, trie state and
\* temporal-repo contents the path to that height left behind.
C3_RootDependsOnLogOnly == running => trie.root = RootAt(nodeRepo, height)

\* C4: once the trie is at or past the hash fork, ResetHeight to the height
\* just below the fork succeeds and MerkleHash() is the root recorded there.
C4_RewindAcrossFork ==
  (/\ running
   /\ height >= AllClaimsInMerkleForkHeight
   /\ BlockHas(blockRepo, AllClaimsInMerkleForkHeight - 1))
  => LET r == ResetHeightRun(AllClaimsInMerkleForkHeight - 1, "none") IN
       /\ ~r.err
       /\ r.height = AllClaimsInMerkleForkHeight - 1
       /\ r.trie.root = BlockGet(blockRepo, AllClaimsInMerkleForkHeight - 1)

\* C5: an AppendBlock call that returns the error of a failed storage
\* operation leaves Height() as it was before the call, so the next change
\* submission is stamped with the same height as before it.
C5_FailedAppendBlockKeepsHeight ==
  [][(lastOp' = "AppendBlock" /\ lastErr') =>
       (height' = height /\ Height' + 1 = Height + 1)]_vars

\* C6: a ResetHeight call that returns an error leaves Height() as it was
\* before the call, and the node manager has dropped none of its changes.
C6_FailedResetHeightKeepsState ==
  [][(lastOp' = "ResetHeight" /\ lastErr') =>
       (height' = height /\ nodeRepo' = nodeRepo /\ nmChanges' = nmChanges)]_vars

\* C7: AppendBlock never returns nil while the (height, root) pair of the new
\* height is missing from the block-hash repo.
C7_NilMeansRootStored ==
  (lastOp = "AppendBlock" /\ ~lastErr) =>
    (BlockHas(blockRepo, height) /\ BlockGet(blockRepo, height) = trie.root)

\* C8: when the process stops inside AppendBlock before the block-hash entry of
\* the new height is written, the tip of the block-hash repo is the previous
\* height and no node change or temporal entry of the interrupted block is on
\* disk.
C8_CrashIsAllOrNothing ==
  [][(lastOp' = "Crash" /\ ~BlockHas(blockRepo', height + 1)) =>
       (/\ blockRepo' = blockRepo
        /\ nodeRepo' = nodeRepo
        /\ temporalRepo' = temporalRepo)]_vars

\* C9: New on a store whose last persisted height p is > 0 returns an instance
\* only if the root recomputed at p equals the root persisted for p, and then
\* Height() = p and MerkleHash() is that root; if the roots differ New returns
\* an error and no instance; with p = 0 it returns an instance at height 0.
C9_StartupConsistency ==
  lastOp = "New" =>
    /\ running = ~lastErr
    /\ BlockLoad(blockRepo) = 0 =>
         running /\ height = 0 /\ nmHeight = 0 /\ trie = EmptyTrie
    /\ (BlockLoad(blockRepo) > 0 /\ running) =>
         /\ height = BlockLoad(blockRepo)
         /\ nmHeight = BlockLoad(blockRepo)
         /\ trie.root = BlockGet(blockRepo, BlockLoad(blockRepo))
         /\ RootAt(nodeRepo, height) = trie.root
    /\ (/\ BlockLoad(blockRepo) > 0
        /\ RootAt(nodeRepo, BlockLoad(blockRepo))
             # BlockGet(blockRepo, BlockLoad(blockRepo)))
       => ~running /\ lastErr

\* New has returned an instance from a store with blocks and a claim in the root
C9_Witness ==
  /\ lastOp = "New"
  /\ restarts > 0
  /\ running
  /\ height > 0
  /\ trie.root # EmptyRoot

\* C10: Height() starts at 0; a successful AppendBlock increases it by exactly
\* one, and from an empty store with no changes it gives height 1 and the empty
\* root; a change submission, accepted or rejected, leaves it; only AppendBlock
\* and ResetHeight change it.
C10_HeightEvolution ==
  /\ height = 0
  /\ [][/\ (lastOp' = "AppendBlock" /\ ~lastErr') => height' = height + 1
        /\ (/\ lastOp' = "AppendBlock" /\ ~lastErr'
            /\ height = 0 /\ trie = EmptyTrie /\ blockRepo = {}
            /\ nodeRepo = <<>> /\ nmChanges = <<>>)
           => (height' = 1 /\ trie'.root = EmptyRoot)
        /\ lastOp' \in {"AddClaim", "UpdateClaim", "SpendClaim", "AddSupport",
                        "SpendSupport"} => height' = height
        /\ height' # height => lastOp' \in {"AppendBlock", "ResetHeight"}]_vars

\* a change submission was rejected at a height AppendBlock had reached
C10_Witness ==
  /\ lastOp \in {"AddClaim", "UpdateClaim", "SpendClaim", "AddSupport",
                 "SpendSupport"}
  /\ lastErr
  /\ height > 0
  /\ BlockHas(blockRepo, height)

\* C11: a submitted change is stamped Height() + 1; every change the node
\* manager persists in an AppendBlock to height h carries height h; after a
\* successful ResetHeight no buffered change is left that a later AppendBlock
\* would apply at a height other than its stamp.
C11_ChangeLifecycle ==
  [][/\ (/\ lastOp' \in {"AddClaim", "UpdateClaim", "SpendClaim", "AddSupport",
                         "SpendSupport"}
         /\ ~lastErr')
        => (/\ Len(nmChanges') = Len(nmChanges) + 1
            /\ nmChanges'[Len(nmChanges')].height = Height + 1)
     /\ (lastOp' = "AppendBlock" /\ ~lastErr')
        => \A i \in (Len(nodeRepo) + 1)..Len(nodeRepo') :
             nodeRepo'[i].height = height'
     /\ (lastOp' = "ResetHeight" /\ ~lastErr')
        => \A i \in 1..Len(nmChanges') : nmChanges'[i].height = height' + 1]_vars

\* C12: after a successful ResetHeight(target) the temporal repo holds no
\* entry (name, h) with h > target left by a rewound block: every such entry
\* is the next update height of the name at a block of the current history.
C12_TemporalPrunedOnRewind ==
  (lastOp = "ResetHeight" /\ ~lastErr) =>
    \A e \in temporalRepo :
      e[2] > height =>
        \E k \in 1..height :
          NextUpdateHeight(NodeAt(nodeRepo, e[1], k), k) = e[2]

\* C13: after successful AppendBlock calls only, a name is listed in the
\* temporal repo at an appended height h if and only if the name has a change
\* stamped h or its node at h differs from its node at h - 1.
C13_TemporalExactness ==
  resets = 0 =>
    \A n \in Names, h \in 1..height :
      (<<n, h>> \in temporalRepo)
        <=> (\/ \E i \in 1..Len(nodeRepo) :
                  nodeRepo[i].name = n /\ nodeRepo[i].height = h
             \/ NodeAt(nodeRepo, n, h) # NodeAt(nodeRepo, n, h - 1))

\* C14: after a successful AppendBlock to height h no node has
\* 0 < next update height <= h; every pair the call adds to the temporal repo
\* is a touched name at h or a scheduled update above h; for every name the
\* loop visits, the pair (name, next update height) is added exactly when that
\* height is > 0.
C14_NoOrphanSchedules ==
  [][(lastOp' = "AppendBlock" /\ ~lastErr') =>
       /\ \A n \in KnownNames(nodeRepo') :
            \/ NextUpdateHeightOfNode(nodeRepo', n, height')[2] = 0
            \/ NextUpdateHeightOfNode(nodeRepo', n, height')[2] > height'
       /\ \A e \in temporalRepo' \ temporalRepo :
            \/ e[2] > height'
            \/ /\ e[2] = height'
               /\ e[1] \in Range(TouchedNames(nodeRepo, nmChanges, nmHeight,
                                              height + 1))
       /\ \A n \in Range(TouchedNames(nodeRepo, nmChanges, nmHeight, height + 1))
                     \cup Range(NodesAt(temporalRepo, height + 1)) :
            /\ <<n, 0>> \notin temporalRepo'
            /\ NextUpdateHeightOfNode(nodeRepo', n, height')[2] > 0
                 => NextUpdateHeightOfNode(nodeRepo', n, height') \in temporalRepo'
     ]_vars

\* an AppendBlock has visited one name with no next update and one name whose
\* next update it scheduled above the new height
C14_Witness ==
  /\ lastOp = "AppendBlock"
  /\ ~lastErr
  /\ \E n \in Names :
       /\ <<n, height>> \in temporalRepo
       /\ NextUpdateHeightOfNode(nodeRepo, n, height)[2] = 0
  /\ \E n \in Names :
       /\ <<n, height>> \in temporalRepo
       /\ NextUpdateHeightOfNode(nodeRepo, n, height)[2] > height
       /\ NextUpdateHeightOfNode(nodeRepo, n, height) \in temporalRepo

\* C15: the hash fork sweep runs in an AppendBlock if and only if the call
\* brings the height to AllClaimsInMerkleForkHeight; in that block every name
\* the node manager knows is marked in the trie, the root stored for the height
\* is the all-claims root of the swept trie, and the trie that SetRoot leaves
\* behind carries the root the block-hash repo holds; in every other block
\* neither the sweep nor SetRoot leaves a mark.
C15_HashForkSweep ==
  [][(lastOp' = "AppendBlock" /\ ~lastErr') =>
       LET names == Range(TouchedNames(nodeRepo, nmChanges, nmHeight, height + 1))
                      \cup Range(NodesAt(temporalRepo, height + 1))
           trie1 == TrieUpdate(trie, names, Reload)
           sweep == updateTrieForHashForkIfNecessary(trie1, height', nodeRepo')
       IN /\ sweep.hit <=> height' = AllClaimsInMerkleForkHeight
          /\ height' = AllClaimsInMerkleForkHeight =>
               /\ \A n \in KnownNames(nodeRepo') : sweep.trie.dirty[n] # Clean
               /\ BlockGet(blockRepo', height')
                    = TrieMerkle(sweep.trie, TRUE, nodeRepo', height').root
               /\ \A n \in Names :
                    BlockGet(blockRepo', height')[n][1] \in {"none", "all"}
               /\ trie'.root = BlockGet(blockRepo', height')
               /\ \A n \in Names :
                    trie'.dirty[n] = IF n \in names THEN Reload ELSE Clean
          /\ height' # AllClaimsInMerkleForkHeight =>
               /\ sweep.trie = trie1
               /\ \A n \in Names : trie'.dirty[n] = Clean
               /\ trie'.root = BlockGet(blockRepo', height')
     ]_vars

\* the AppendBlock that reaches the fork height has swept a trie with a claim
\* in it and left an all-claims root
C15_Witness ==
  /\ lastOp = "AppendBlock"
  /\ ~lastErr
  /\ height = AllClaimsInMerkleForkHeight
  /\ trie.root # EmptyRoot
  /\ \E n \in Names : trie.root[n][1] = "all"

\* C16: Close invokes every registered cleanup exactly once, in the reverse of
\* the registration order (trie, node manager, temporal repo, block repo), also
\* past a cleanup that returns an error, and reports no error.
C16_CloseRunsCleanupsInReverse ==
  [][lastOp' = "Close" =>
       /\ Len(closeLog') = Len(cleanups)
       /\ \A i \in 1..Len(cleanups) :
            closeLog'[i][1] = cleanups[Len(cleanups) + 1 - i]
       /\ \A i, j \in 1..Len(closeLog') :
            closeLog'[i][1] = closeLog'[j][1] => i = j
       /\ [i \in 1..Len(closeLog') |-> closeLog'[i][1]]
            \in {<<"persistentTrie", "nodeManager", "temporalRepo", "blockRepo">>,
                 <<"nodeManager", "temporalRepo", "blockRepo">>}
       /\ ~lastErr'
       /\ ~running'
     ]_vars

\* Close has run all four cleanups although the first one it invoked failed
C16_Witness ==
  /\ lastOp = "Close"
  /\ Len(closeLog) = 4
  /\ closeLog[1][2]
  /\ ~closeLog[4][2]

\* C20: whenever New returns an error, every repo it had opened before the
\* failure has had its cleanup invoked.
C20_NoLeakOnFailedNew == (lastOp = "New" /\ lastErr) => opened = {}

\* C17: in every reachable state MerkleHash() is a root of the scheme of
\* Height(): all-claims leaves iff Height() >= AllClaimsInMerkleForkHeight; so
\* is the root AppendBlock stores for the height it reaches.
C17_SchemeFollowsHeight ==
  /\ running =>
       \A n \in Names :
         MerkleHash(trie, height, nodeRepo, nmHeight).root[n][1]
           \in {"none", IF height >= AllClaimsInMerkleForkHeight THEN "all" ELSE "winner"}
  /\ (lastOp = "AppendBlock" /\ ~lastErr /\ BlockHas(blockRepo, height)) =>
       \A n \in Names :
         BlockGet(blockRepo, height)[n][1]
           \in {"none", IF height >= AllClaimsInMerkleForkHeight THEN "all" ELSE "winner"}

\* C18: Height() after a ResetHeight call, successful or not, is at most
\* Height() before it.
C18_ResetHeightNeverForward ==
  [][lastOp' = "ResetHeight" => height' <= height]_vars

\* C19: after a successful ResetHeight the block-hash repo holds no entry above
\* Height(), so New on the store as it is returns an instance at that height.
C19_PersistedHeightFollowsRewind ==
  (lastOp = "ResetHeight" /\ ~lastErr) =>
    /\ \A e \in blockRepo : e[1] <= height
    /\ BlockLoad(blockRepo) = height
    /\ NewRun("none").height = height

====
